---- MODULE Spec2Model ----
(***************************************************************************)
(* A model of the grapesjs-ai-agent plugin: the chatbot panel's submit     *)
(* flow (handleSubmit / setSubmitting), the conversation state shared by   *)
(* the modules, and the API module (sendMessage, findComponentById,        *)
(* applyModifications) acting on the host editor's component tree.         *)
(*                                                                         *)
(* HTML strings are sequences of tokens (whitespace, text, start tag, end  *)
(* tag); the browser's parser, String.prototype.trim, innerHTML and the    *)
(* editor's components(html) are operators over those tokens.              *)
(***************************************************************************)
EXTENDS Integers, Sequences, FiniteSets, TLC

VARIABLES
    tree,                 \* the editor's wrapper component (nested records)
    lastApply,            \* arguments and return value of the latest applyModifications call
    applyCalls,           \* number of applyModifications calls so far
    refreshCount,         \* number of editor.refresh() calls so far
    history,              \* state.history
    pendingComponents,    \* state.pendingComponents
    lastUsedComponents,   \* state.lastUsedComponents (Undefined until first set)
    isLoading,            \* state.isLoading
    submitDisabled,       \* submitBtn.disabled
    inputDisabled,        \* inputEl.disabled
    inflight,             \* sendMessage calls whose promise has not settled yet
    submitCount,          \* number of handleSubmit runs that got past the early return
    apiEndpoint,          \* opts.api
    uncaught,             \* messages of errors no handler caught
    loaded,               \* the editor's 'load' event has run initModules
    isOpen,               \* state.isOpen
    panelOpen,            \* the panel element carries the `${pfx}-open` class
    fabVariant,           \* which FAB module is built in: "pointer" (fab.js) or "mouse"
    gesture,              \* the pointer on the FAB: "idle", "down", or "up" (click pending)
    travel,               \* largest distance from the press point in this gesture
    isDragging,           \* the FAB module's isDragging
    hasDragged,           \* the FAB module's hasDragged (mouse/touch variant)
    docListeners,         \* the move/up listeners are attached to document
    canvasDisabled,       \* the canvas and its frame have pointer-events: none
    proxyCall             \* the demo proxy's latest parseAIResponse call: content and result

mergeVars == <<tree, lastApply, applyCalls, refreshCount>>

panelVars == <<loaded, isOpen, panelOpen>>

fabVars == <<fabVariant, gesture, travel, isDragging, hasDragged, docListeners,
             canvasDisabled>>

uiVars == <<panelVars, fabVars, proxyCall>>

vars == <<tree, lastApply, applyCalls, refreshCount, history, pendingComponents,
          lastUsedComponents, isLoading, submitDisabled, inputDisabled, inflight,
          submitCount, apiEndpoint, uncaught, loaded, isOpen, panelOpen,
          fabVariant, gesture, travel, isDragging, hasDragged, docListeners,
          canvasDisabled, proxyCall>>

chatVars == <<history, pendingComponents, lastUsedComponents, isLoading,
              submitDisabled, inputDisabled, inflight, submitCount, apiEndpoint,
              uncaught, uiVars>>

-----------------------------------------------------------------------------
(* Bounds *)

MaxCalls == 2      \* direct applyModifications calls in MergeSpec
MaxBatch == 3      \* ids per modifications mapping
MaxSubmits == 2    \* submits per session

-----------------------------------------------------------------------------
(* JavaScript values *)

\* JavaScript's undefined, as an attribute value, a tag name or a state field.
Undefined == "undefined"

NoAttrs == [k \in {} |-> ""]

\* Object spread {...a, ...b}: b's keys win.
Spread(a, b) ==
    [k \in DOMAIN a \cup DOMAIN b |-> IF k \in DOMAIN b THEN b[k] ELSE a[k]]

\* String.prototype.toLowerCase / the parser's upper-casing, on the tag names used.
ToLower(s) ==
    CASE s = "DIV" -> "div"
      [] s = "BUTTON" -> "button"
      [] s = "SPAN" -> "span"
      [] s = "BODY" -> "body"
      [] OTHER -> s

ToUpper(s) ==
    CASE s = "div" -> "DIV"
      [] s = "button" -> "BUTTON"
      [] s = "span" -> "SPAN"
      [] s = "body" -> "BODY"
      [] OTHER -> s

-----------------------------------------------------------------------------
(* HTML source text as tokens *)

Open(tag, attrs) == [k |-> "open", tag |-> tag, attrs |-> attrs, text |-> ""]
Close(tag) == [k |-> "close", tag |-> tag, attrs |-> NoAttrs, text |-> ""]
Txt(s) == [k |-> "text", tag |-> "", attrs |-> NoAttrs, text |-> s]
Ws == [k |-> "ws", tag |-> "", attrs |-> NoAttrs, text |-> " "]

\* A JSON value found under an id of the modifications mapping.
Str(toks) == [type |-> "string", toks |-> toks]
Num == [type |-> "number", toks |-> <<>>]

RECURSIVE TrimStart(_)
TrimStart(toks) ==
    IF toks # <<>> /\ Head(toks).k = "ws" THEN TrimStart(Tail(toks)) ELSE toks

RECURSIVE TrimEnd(_)
TrimEnd(toks) ==
    IF toks # <<>> /\ toks[Len(toks)].k = "ws"
    THEN TrimEnd(SubSeq(toks, 1, Len(toks) - 1))
    ELSE toks

\* String.prototype.trim
Trim(toks) == TrimEnd(TrimStart(toks))

\* Index of the end tag closing the element whose content starts at i.
RECURSIVE MatchClose(_, _, _)
MatchClose(toks, i, depth) ==
    IF i > Len(toks) THEN Len(toks) + 1
    ELSE IF toks[i].k = "open" THEN MatchClose(toks, i + 1, depth + 1)
    ELSE IF toks[i].k = "close"
         THEN IF depth = 0 THEN i ELSE MatchClose(toks, i + 1, depth - 1)
    ELSE MatchClose(toks, i + 1, depth)

\* tempDiv.innerHTML = html; tempDiv.childNodes.  Element nodes report their
\* tagName in upper case; whitespace is kept as text nodes.
RECURSIVE DomChildNodes(_)
DomChildNodes(toks) ==
    IF toks = <<>> THEN <<>>
    ELSE LET t == Head(toks) IN
         IF t.k = "open"
         THEN LET j == MatchClose(toks, 2, 0) IN
              <<[nodeType |-> "element", tagName |-> ToUpper(t.tag),
                 attributes |-> t.attrs, inner |-> SubSeq(toks, 2, j - 1),
                 data |-> ""]>>
              \o DomChildNodes(SubSeq(toks, j + 1, Len(toks)))
         ELSE IF t.k = "close" THEN DomChildNodes(Tail(toks))
         ELSE <<[nodeType |-> "text", tagName |-> "", attributes |-> NoAttrs,
                 inner |-> <<>>, data |-> t.text]>>
              \o DomChildNodes(Tail(toks))

IsElement(n) == n.nodeType = "element"

\* tempDiv.children: element children only.
DomChildren(toks) == SelectSeq(DomChildNodes(toks), IsElement)

\* element.innerHTML: the content serialised again, tag names in lower case.
InnerHTML(el) ==
    [i \in 1..Len(el.inner) |-> [el.inner[i] EXCEPT !.tag = ToLower(@)]]

-----------------------------------------------------------------------------
(* The host editor's component tree.  A component is a record               *)
(*   [cid, tagName, attrs, kids, content].                                  *)

\* cid of a component the editor creates while parsing HTML.  The editor
\* allocates cids it never issued before, so such a cid equals no id that a
\* request or a selection made earlier can hold.
NewCid == "c-new"

Comp(cid, tagName, attrs, kids) ==
    [cid |-> cid, tagName |-> tagName, attrs |-> attrs, kids |-> kids, content |-> ""]

TextNode(s) ==
    [cid |-> NewCid, tagName |-> "", attrs |-> NoAttrs, kids |-> <<>>, content |-> s]

\* component.components(html): the editor parses the markup into child
\* components; whitespace-only text is dropped, tag names are lower-cased.
RECURSIVE ComponentsFromHtml(_)
ComponentsFromHtml(toks) ==
    LET nodes == DomChildNodes(toks)
        Keep(n) == n.nodeType = "element" \/ n.data # " "
        kept == SelectSeq(nodes, Keep)
    IN [i \in 1..Len(kept) |->
          IF kept[i].nodeType = "element"
          THEN Comp(NewCid, ToLower(kept[i].tagName), kept[i].attributes,
                    ComponentsFromHtml(kept[i].inner))
          ELSE TextNode(kept[i].data)]

\* component.getId(): the id attribute, or the cid-derived id when there is none.
getId(c) ==
    IF "id" \in DOMAIN c.attrs /\ c.attrs["id"] \notin {Undefined, ""}
    THEN c.attrs["id"]
    ELSE c.cid

\* component.getAttributes()
getAttributes(c) == c.attrs

RECURSIVE NodeAt(_, _)
NodeAt(n, path) ==
    IF path = <<>> THEN n ELSE NodeAt(n.kids[Head(path)], Tail(path))

RECURSIVE ReplaceAt(_, _, _)
ReplaceAt(n, path, m) ==
    IF path = <<>> THEN m
    ELSE [n EXCEPT !.kids[Head(path)] = ReplaceAt(@, Tail(path), m)]

-----------------------------------------------------------------------------
(* API module: findComponentById *)

NotFound == [ok |-> FALSE, path |-> <<>>]

IdMatches(c, id) == c.cid = id \/ getId(c) = id

\* A search that looks below a component before it looks at the component.
RECURSIVE findInComponentsChildrenFirst(_, _, _)
findInComponentsChildrenFirst(models, i, id) ==
    IF i > Len(models) THEN NotFound
    ELSE LET found == findInComponentsChildrenFirst(models[i].kids, 1, id) IN
         IF found.ok THEN [ok |-> TRUE, path |-> <<i>> \o found.path]
         ELSE IF IdMatches(models[i], id) THEN [ok |-> TRUE, path |-> <<i>>]
         ELSE findInComponentsChildrenFirst(models, i + 1, id)

\* findInComponents: the loop over components.models from index i on.
RECURSIVE findInComponents(_, _, _)
findInComponents(models, i, id) ==
    IF i > Len(models) THEN NotFound
    ELSE IF IdMatches(models[i], id) THEN [ok |-> TRUE, path |-> <<i>>]
    ELSE LET found == findInComponents(models[i].kids, 1, id) IN
         IF found.ok THEN [ok |-> TRUE, path |-> <<i>> \o found.path]
         ELSE findInComponents(models, i + 1, id)

\* The result is the path of the component from the wrapper.
findComponentById(wrapper, id) ==
    IF IdMatches(wrapper, id) THEN [ok |-> TRUE, path |-> <<>>]
    ELSE findInComponents(wrapper.kids, 1, id)

-----------------------------------------------------------------------------
(* API module: applyModifications *)

\* A modifications mapping is the sequence of its [id, value] entries in
\* Object.entries order; ids are distinct.
Entry(id, value) == [id |-> id, value |-> value]

\* component.get('tagName')?.toLowerCase()
TagLower(component) ==
    IF component.tagName = Undefined THEN Undefined ELSE ToLower(component.tagName)

\* The test without the tag comparison.
IsFullReplacementAnyTag(component, trimmed) ==
    Len(DomChildren(trimmed)) = 1

\* The test that selects full element replacement, on tempDiv filled with
\* newHtml.trim().
IsFullReplacement(component, trimmed) ==
    LET children == DomChildren(trimmed) IN
    /\ Len(children) = 1
    /\ ToLower(children[1].tagName) = TagLower(component)

\* newAttrs: every attribute of the fragment element but id.
NewAttrs(firstChild) ==
    [k \in DOMAIN firstChild.attributes \ {"id"} |-> firstChild.attributes[k]]

\* The spread in the other order: old values win.
MergedAttrsOldWins(attributes, newAttrs) ==
    Spread(Spread(newAttrs, attributes),
           [k \in {"id"} |->
              IF "id" \in DOMAIN attributes THEN attributes["id"] ELSE Undefined])

\* { ...attributes, ...newAttrs, id: attributes.id }
MergedAttrs(attributes, newAttrs) ==
    Spread(Spread(attributes, newAttrs),
           [k \in {"id"} |->
              IF "id" \in DOMAIN attributes THEN attributes["id"] ELSE Undefined])

\* A patch that hands the fragment's attributes, id included, to setAttributes.
PatchComponentTakingFragmentId(component, newHtml) ==
    LET cleared == [component EXCEPT !.kids = <<>>] IN
    IF newHtml.type # "string"
    THEN [threw |-> TRUE, error |-> "newHtml.trim is not a function", component |-> cleared]
    ELSE IF Trim(newHtml.toks) = <<>>
    THEN [threw |-> FALSE, error |-> "", component |-> cleared]
    ELSE IF IsFullReplacement(component, Trim(newHtml.toks))
    THEN LET firstChild == DomChildren(Trim(newHtml.toks))[1] IN
         [threw |-> FALSE, error |-> "",
          component |->
             [cleared EXCEPT
                 !.attrs = Spread(getAttributes(component), firstChild.attributes),
                 !.kids = ComponentsFromHtml(InnerHTML(firstChild))]]
    ELSE [threw |-> FALSE, error |-> "",
          component |-> [cleared EXCEPT !.kids = ComponentsFromHtml(newHtml.toks)]]

\* The body of the try block once the component is located: the component
\* as the block leaves it, and whether the block threw.
PatchComponent(component, newHtml) ==
    LET attributes == getAttributes(component)
        cleared == [component EXCEPT !.kids = <<>>]      \* components().reset()
    IN IF newHtml.type # "string"
       THEN [threw |-> TRUE, error |-> "newHtml.trim is not a function",
             component |-> cleared]
       ELSE IF Trim(newHtml.toks) = <<>>
       THEN [threw |-> FALSE, error |-> "", component |-> cleared]
       ELSE IF IsFullReplacement(component, Trim(newHtml.toks))
       THEN LET firstChild == DomChildren(Trim(newHtml.toks))[1] IN
            [threw |-> FALSE, error |-> "",
             component |->
                [cleared EXCEPT
                    !.attrs = MergedAttrs(attributes, NewAttrs(firstChild)),
                    !.kids = ComponentsFromHtml(InnerHTML(firstChild))]]
       ELSE [threw |-> FALSE, error |-> "",
             component |-> [cleared EXCEPT !.kids = ComponentsFromHtml(newHtml.toks)]]

\* An iteration that passes over an id it cannot locate without recording it.
applyEntrySkippingUnknown(acc, e) ==
    LET found == findComponentById(acc.tree, e.id) IN
    IF ~found.ok
    THEN acc
    ELSE LET component == NodeAt(acc.tree, found.path)
             r == PatchComponent(component, e.value)
             t == ReplaceAt(acc.tree, found.path, r.component)
         IN IF r.threw
            THEN [acc EXCEPT !.tree = t,
                             !.failed = Append(@, [id |-> e.id, error |-> r.error])]
            ELSE [acc EXCEPT !.tree = t,
                             !.changed = Append(@, component.cid),
                             !.success = Append(@, [id |-> e.id, component |-> component.cid])]

\* One iteration of the forEach over Object.entries(modifications).
\* acc = [tree, success, failed, changed].
applyEntry(acc, e) ==
    LET found == findComponentById(acc.tree, e.id) IN
    IF ~found.ok
    THEN [acc EXCEPT !.failed = Append(@, [id |-> e.id, error |-> "Component not found"])]
    ELSE LET component == NodeAt(acc.tree, found.path)
             r == PatchComponent(component, e.value)
             t == ReplaceAt(acc.tree, found.path, r.component)
         IN IF r.threw
            THEN [acc EXCEPT !.tree = t,
                             !.failed = Append(@, [id |-> e.id, error |-> r.error])]
            ELSE [acc EXCEPT !.tree = t,
                             !.changed = Append(@, component.cid),
                             !.success = Append(@, [id |-> e.id, component |-> component.cid])]

\* A loop whose first failing id ends the batch (no per-id try/catch).
RECURSIVE forEachEntryAbortOnFailure(_, _)
forEachEntryAbortOnFailure(acc, mods) ==
    IF mods = <<>> \/ acc.failed # <<>> THEN acc
    ELSE forEachEntryAbortOnFailure(applyEntry(acc, Head(mods)), Tail(mods))

RECURSIVE forEachEntry(_, _)
forEachEntry(acc, mods) ==
    IF mods = <<>> THEN acc
    ELSE forEachEntry(applyEntry(acc, Head(mods)), Tail(mods))

\* A refresh made for every entry of the mapping.
RefreshesPerEntry(results) == Len(results.success) + Len(results.failed)

\* A refresh made only when some component was updated.
RefreshesOnlyOnSuccess(results) == IF results.success = <<>> THEN 0 ELSE 1

\* Number of editor.refresh() calls one applyModifications makes.
RefreshesPerApply(results) == 1

\* applyModifications(modifications) on the tree rooted at wrapper: the tree
\* it leaves, the returned results, the components whose 'change' event was
\* triggered, and the number of canvas refreshes.
applyModifications(wrapper, mods) ==
    LET acc == forEachEntry([tree |-> wrapper, success |-> <<>>, failed |-> <<>>,
                             changed |-> <<>>], mods)
    IN [tree |-> acc.tree, success |-> acc.success, failed |-> acc.failed,
        changed |-> acc.changed, refreshes |-> RefreshesPerApply(acc)]

-----------------------------------------------------------------------------
(* Inputs *)

\* Ids a modifications mapping or a selection can name.
Ids == {"c1", "btn", "ghost"}

AttrsOld == ("class" :> "old") @@ ("title" :> "keep")
AttrsOldId == AttrsOld @@ ("id" :> "btn")
AttrsNew == ("class" :> "new") @@ ("style" :> "color:red") @@ ("id" :> "zz")

\* '<DIV class="new" style="color:red" id="zz">T<button id="btn">x</button></DIV>'
HtmlFullDiv ==
    Str(<<Open("DIV", AttrsNew), Txt("T"), Open("button", "id" :> "btn"), Txt("x"),
          Close("button"), Close("DIV")>>)

\* ' <button class="new" style="color:red" id="zz">Go</button> '
HtmlFullButton ==
    Str(<<Ws, Open("button", AttrsNew), Txt("Go"), Close("button"), Ws>>)

\* '<span>A</span><span>B</span>'
HtmlTwoSpans ==
    Str(<<Open("span", NoAttrs), Txt("A"), Close("span"),
          Open("span", NoAttrs), Txt("B"), Close("span")>>)

\* 'plain'
HtmlText == Str(<<Txt("plain")>>)

\* ' ' (whitespace only)
HtmlBlank == Str(<<Ws>>)

Values == {HtmlFullDiv, HtmlFullButton, HtmlTwoSpans, HtmlText, HtmlBlank, Num}

\* The entries a mapping is built from.  An id that names no component is
\* given one value: the code never reads the value of an id it cannot locate.
Entries == {e \in [id : Ids, value : Values] : e.id = "ghost" => e.value = HtmlText}

RECURSIVE DistinctIds(_)
DistinctIds(mods) ==
    \/ mods = <<>>
    \/ /\ \A i \in 2..Len(mods) : mods[i].id # mods[1].id
       /\ DistinctIds(Tail(mods))

\* The mappings of at most MaxBatch entries.
Batches ==
    UNION {{m \in [1..n -> Entries] : DistinctIds(m)} : n \in 0..MaxBatch}

\* The page the editor holds when the plugin loads:
\*   <body><div class="old" title="keep"><button id="btn" ...>x</button></div></body>
\* The div has no id attribute and is addressed by its cid c1; the button is
\* addressed by its id attribute.
InitTree ==
    Comp("w", "body", NoAttrs,
         <<Comp("c1", "div", AttrsOld,
                <<Comp("c7", "button", AttrsOldId, <<TextNode("x")>>)>>)>>)

NoApply == [mods |-> <<>>, success |-> <<>>, failed |-> <<>>, changed |-> <<>>]

-----------------------------------------------------------------------------
(* Conversation state and messages *)

\* A field that may be undefined.
None == [defined |-> FALSE, v |-> <<>>]
Some(x) == [defined |-> TRUE, v |-> x]

\* Message text is a sequence of string pieces; "" is <<>>.
UserMessage(message, components) ==
    [role |-> "user", content |-> message,
     components |-> IF Len(components) > 0 THEN Some(components) ELSE None,
     isError |-> FALSE]

DefaultReply == <<"I have processed your request.">>

AssistantMessage(reply) ==
    [role |-> "assistant", content |-> IF reply # <<>> THEN reply ELSE DefaultReply,
     components |-> None, isError |-> FALSE]

DefaultError == <<"Failed to process request. Please try again.">>

ErrorMessage(message) ==
    [role |-> "assistant",
     content |-> <<"Error: ">> \o (IF message # <<>> THEN message ELSE DefaultError),
     components |-> None, isError |-> TRUE]

\* inputEl.value.trim(), on the texts a user types here.
TrimText(text) ==
    CASE text = "" -> <<>>
      [] text = "  " -> <<>>
      [] text = " make it red " -> <<"make it red">>
      [] OTHER -> <<text>>

Texts == {"  ", " make it red "}

Range(seq) == {seq[i] : i \in 1..Len(seq)}

\* Array.prototype.splice(index, 1)
RemoveAt(seq, i) == SubSeq(seq, 1, i - 1) \o SubSeq(seq, i + 1, Len(seq))

\* Array.prototype.indexOf, 1-based; 0 when absent.
IndexOf(seq, x) ==
    IF x \in Range(seq) THEN CHOOSE i \in 1..Len(seq) :
                                 seq[i] = x /\ \A j \in 1..(i - 1) : seq[j] # x
    ELSE 0

-----------------------------------------------------------------------------
(* API module: sendMessage *)

Endpoint == "https://api.example.com/chat"

ErrNotConfigured == <<"API endpoint not configured. Please set the \"api\" option.">>
ErrNetwork == <<"Network error. Please check your connection and try again.">>

\* component.toHTML(): attributes whose value is undefined are not written.
RECURSIVE toHTML(_)
RECURSIVE KidsToHTML(_)
toHTML(c) ==
    IF c.tagName = "" THEN <<Txt(c.content)>>
    ELSE <<Open(c.tagName,
                [k \in {a \in DOMAIN c.attrs : c.attrs[a] # Undefined} |-> c.attrs[k]])>>
         \o KidsToHTML(c.kids) \o <<Close(c.tagName)>>
KidsToHTML(kids) ==
    IF kids = <<>> THEN <<>> ELSE toHTML(Head(kids)) \o KidsToHTML(Tail(kids))

\* componentData with an entry for every referenced id, empty for the ids
\* that are not located.
GatherComponentDataForAll(wrapper, componentIds) ==
    [id \in Range(componentIds) |->
        IF findComponentById(wrapper, id).ok
        THEN toHTML(NodeAt(wrapper, findComponentById(wrapper, id).path))
        ELSE <<>>]

\* componentData: the HTML of every referenced id that is located.
GatherComponentData(wrapper, componentIds) ==
    [id \in {x \in Range(componentIds) : findComponentById(wrapper, x).ok} |->
        toHTML(NodeAt(wrapper, findComponentById(wrapper, id).path))]

\* history.map(msg => ({ role, content, components: msg.components || [] }))
ProjectHistory(hist) ==
    [i \in 1..Len(hist) |->
        [role |-> hist[i].role, content |-> hist[i].content,
         components |-> IF hist[i].components.defined THEN hist[i].components.v ELSE <<>>]]

NoPayload == [history |-> <<>>, message |-> <<>>, components |-> <<>>,
              componentData |-> [id \in {} |-> <<>>]]

\* sendMessage without its endpoint test: the payload is built and fetch is
\* called whatever the endpoint is.
sendMessageStartWithoutCheck(endpoint, wrapper, message, componentIds, hist) ==
    [fetched |-> TRUE,
     payload |-> [history |-> ProjectHistory(hist), message |-> message,
                  components |-> componentIds,
                  componentData |-> GatherComponentData(wrapper, componentIds)]]

\* sendMessage up to its first await: either it throws before anything is
\* built, or the payload is built and fetch is called with it.
sendMessageStart(endpoint, wrapper, message, componentIds, hist) ==
    IF endpoint = ""
    THEN [fetched |-> FALSE, payload |-> NoPayload]
    ELSE [fetched |-> TRUE,
          payload |-> [history |-> ProjectHistory(hist), message |-> message,
                       components |-> componentIds,
                       componentData |-> GatherComponentData(wrapper, componentIds)]]

\* What the network does with a fetch: the endpoint cannot be reached (fetch
\* rejects with a TypeError whose message the browser chooses), or a
\* response with a status and a body arrives.
JsonBody(reply, mods) == [json |-> TRUE, text |-> "{...}", reply |-> reply, mods |-> mods]
TextBody(text) == [json |-> FALSE, text |-> text, reply |-> <<>>, mods |-> None]

Unreachable(message) ==
    [kind |-> "unreachable", message |-> message, status |-> 0, body |-> TextBody("")]
Http(status, body) ==
    [kind |-> "http", message |-> "", status |-> status, body |-> body]

\* Bodies of 2xx responses: a reply without modifications, a reply with a
\* mapping that names an unknown id and the div, and a body that is no JSON.
ReplyWithMods ==
    JsonBody(<<"Done.">>, Some(<<Entry("ghost", HtmlText), Entry("c1", HtmlFullDiv)>>))

OkBodies == {JsonBody(<<"Done.">>, None), ReplyWithMods, TextBody("<html>Bad Gateway</html>")}

\* Bodies of the other responses.
ErrorBodies == {ReplyWithMods}

\* Object.entries of a string: one entry per character, keyed by its index.
IndexKey(i) == CASE i = 0 -> "0" [] i = 1 -> "1" [] i = 2 -> "2" [] OTHER -> "3"

ObjectEntriesOfString(chars) ==
    [i \in 1..Len(chars) |-> Entry(IndexKey(i - 1), Str(<<Txt(chars[i])>>))]

\* Object.entries of an array: one entry per element, keyed by its index.
ObjectEntriesOfArray(items) ==
    [i \in 1..Len(items) |-> Entry(IndexKey(i - 1), items[i])]

\* The body "null": JSON that decodes to a value without properties.
NullBody == [json |-> TRUE, text |-> "null", reply |-> <<>>, mods |-> None]

\* response.reply on the decoded body throws when the body is null.
ErrReplyOfNull == <<"Cannot read properties of null (reading 'reply')">>

\* Decodable 2xx bodies whose modifications field is not a mapping from id
\* to HTML string: the string "hi", the array ["plain"], and { c1: 42 }.
ModsString == JsonBody(<<"Done.">>, Some(ObjectEntriesOfString(<<"h", "i">>)))
ModsArray == JsonBody(<<"Done.">>, Some(ObjectEntriesOfArray(<<HtmlText>>)))
ModsNumberValue == JsonBody(<<"Done.">>, Some(<<Entry("c1", Num)>>))

NonMappingBodies == {ModsString, ModsArray, ModsNumberValue}

\* What else the network can do: the bodies above, the body null, and a
\* rejection worded as by a browser whose message does not contain "fetch".
OddOutcomes ==
    {Http(200, b) : b \in NonMappingBodies \cup {NullBody}}
        \cup {Unreachable("Load failed")}

StatusText(status) == IF status = 200 THEN "200" ELSE "500"

NetOutcomes ==
    {Unreachable("Failed to fetch")}
        \cup {Http(200, b) : b \in OkBodies}
        \cup {Http(500, b) : b \in ErrorBodies}

\* response.ok
ResponseOk(net) == net.status >= 200 /\ net.status <= 299

\* String.prototype.includes('fetch') on the messages above.
IncludesFetch(message) == message = "Failed to fetch"

\* sendMessage without its response.ok test: the body of any response that
\* decodes is returned.
sendMessageSettleIgnoringStatus(request, net) ==
    IF ~request.fetched THEN [threw |-> TRUE, error |-> ErrNotConfigured, data |-> TextBody("")]
    ELSE IF net.kind = "unreachable"
    THEN [threw |-> TRUE,
          error |-> IF IncludesFetch(net.message) THEN ErrNetwork ELSE <<net.message>>,
          data |-> TextBody("")]
    ELSE IF ~net.body.json
    THEN [threw |-> TRUE, error |-> <<"Unexpected end of JSON input">>, data |-> TextBody("")]
    ELSE [threw |-> FALSE, error |-> <<>>, data |-> net.body]

\* sendMessage from the fetch on: the value the promise resolves to, or the
\* error it rejects with.
sendMessageSettle(request, net) ==
    IF ~request.fetched THEN [threw |-> TRUE, error |-> ErrNotConfigured, data |-> TextBody("")]
    ELSE IF net.kind = "unreachable"
    THEN [threw |-> TRUE,
          error |-> IF IncludesFetch(net.message) THEN ErrNetwork ELSE <<net.message>>,
          data |-> TextBody("")]
    ELSE IF ~ResponseOk(net)
    THEN [threw |-> TRUE,
          error |-> <<"API error (", StatusText(net.status), "): ",
                      IF net.body.text # "" THEN net.body.text ELSE "Unknown error">>,
          data |-> TextBody("")]
    ELSE IF ~net.body.json
    THEN [threw |-> TRUE, error |-> <<"Unexpected end of JSON input">>, data |-> TextBody("")]
    ELSE [threw |-> FALSE, error |-> <<>>, data |-> net.body]

\* The effect of one applyModifications call on the editor and on what the
\* caller observes.
DoApply(mods) ==
    \E r \in {applyModifications(tree, mods)} :
    /\ tree' = r.tree
    /\ lastApply' = [mods |-> mods, success |-> r.success, failed |-> r.failed,
                     changed |-> r.changed]
    /\ applyCalls' = applyCalls + 1
    /\ refreshCount' = refreshCount + r.refreshes

-----------------------------------------------------------------------------
(* Chatbot panel: handleSubmit, setSubmitting, badges *)

\* setSubmitting that records state.isLoading only and leaves both controls
\* enabled.
setSubmittingFlagOnly(isSubmitting) ==
    [isLoading |-> isSubmitting, submitDisabled |-> FALSE, inputDisabled |-> FALSE]

\* setSubmitting(isSubmitting): state.isLoading and the two disabled flags.
setSubmitting(isSubmitting) ==
    [isLoading |-> isSubmitting, submitDisabled |-> isSubmitting,
     inputDisabled |-> isSubmitting]

\* The components of a submit without the fallback to the last used ones.
EffectivePendingOnly(pending, lastUsed) == pending

\* The components of a submit that prefers the last used ones to the
\* pending ones.
EffectiveLastUsedFirst(pending, lastUsed) ==
    IF Len(lastUsed.v) > 0 THEN lastUsed.v ELSE pending

\* The components a submit refers to: the pending ones, or the last used
\* ones when nothing is pending.
EffectiveComponents(pending, lastUsed) ==
    IF Len(pending) = 0 /\ Len(lastUsed.v) > 0 THEN lastUsed.v ELSE pending

\* A submit that does not record the components it used.
RememberNothing(components, lastUsed) == lastUsed

\* state.lastUsedComponents after the submit.
RememberComponents(components, lastUsed) ==
    IF Len(components) > 0 THEN Some(components) ELSE lastUsed

ErrLengthOfUndefined == "Cannot read properties of undefined (reading 'length')"

\* handleSubmit up to its first await (which includes sendMessage up to
\* its own first await), on the text found in the input.
handleSubmit(text) ==
    LET message == TrimText(text)
        components == EffectiveComponents(pendingComponents, lastUsedComponents)
    IN IF Len(pendingComponents) = 0 /\ ~lastUsedComponents.defined
       THEN \* state.lastUsedComponents.length on undefined: the handler throws
            /\ uncaught' = uncaught \cup {ErrLengthOfUndefined}
            /\ UNCHANGED <<mergeVars, history, pendingComponents, lastUsedComponents,
                           isLoading, submitDisabled, inputDisabled, inflight,
                           submitCount, apiEndpoint, uiVars>>
       ELSE IF message = <<>> /\ Len(components) = 0
       THEN UNCHANGED vars
       ELSE /\ submitCount < MaxSubmits
            /\ submitCount' = submitCount + 1
            /\ lastUsedComponents' = RememberComponents(components, lastUsedComponents)
            /\ history' = Append(history, UserMessage(message, components))
            /\ pendingComponents' = <<>>
            /\ isLoading' = setSubmitting(TRUE).isLoading
            /\ submitDisabled' = setSubmitting(TRUE).submitDisabled
            /\ inputDisabled' = setSubmitting(TRUE).inputDisabled
            /\ inflight' = Append(inflight,
                              sendMessageStart(apiEndpoint, tree, message, components,
                                               history'))
            /\ UNCHANGED <<mergeVars, apiEndpoint, uncaught, uiVars>>

\* A click on the submit button; a disabled button dispatches no click.
SubmitClick ==
    /\ ~submitDisabled
    /\ \E text \in Texts : handleSubmit(text)

\* Enter in the textarea; a disabled textarea receives no key events.
EnterKey ==
    /\ ~inputDisabled
    /\ \E text \in Texts : handleSubmit(text)

\* A handler without the finally block: setSubmitting(false) is the last
\* statement of the try block.
SettleEffectsWithoutFinally(i, net) ==
    LET r == sendMessageSettle(inflight[i], net)
        completed == ~r.threw /\ r.data # NullBody
    IN
    /\ inflight' = RemoveAt(inflight, i)
    /\ IF r.threw
       THEN /\ history' = Append(history, ErrorMessage(r.error))
            /\ UNCHANGED mergeVars
       ELSE IF r.data = NullBody
       THEN /\ history' = Append(history, ErrorMessage(ErrReplyOfNull))
            /\ UNCHANGED mergeVars
       ELSE /\ history' = Append(history, AssistantMessage(r.data.reply))
            /\ IF r.data.mods.defined
               THEN DoApply(r.data.mods.v)
               ELSE UNCHANGED mergeVars
    /\ isLoading' = IF completed THEN setSubmitting(FALSE).isLoading ELSE isLoading
    /\ submitDisabled' =
          IF completed THEN setSubmitting(FALSE).submitDisabled ELSE submitDisabled
    /\ inputDisabled' =
          IF completed THEN setSubmitting(FALSE).inputDisabled ELSE inputDisabled
    /\ UNCHANGED <<pendingComponents, lastUsedComponents, submitCount, apiEndpoint,
                   uncaught, uiVars>>

\* A handler that also reports a failed modification in the conversation.
SettleEffectsReportingFailures(i, net) ==
    LET r == sendMessageSettle(inflight[i], net) IN
    /\ inflight' = RemoveAt(inflight, i)
    /\ IF r.threw
       THEN /\ history' = Append(history, ErrorMessage(r.error))
            /\ UNCHANGED mergeVars
       ELSE IF r.data = NullBody
       THEN /\ history' = Append(history, ErrorMessage(ErrReplyOfNull))
            /\ UNCHANGED mergeVars
       ELSE IF r.data.mods.defined
       THEN /\ DoApply(r.data.mods.v)
            /\ history' =
                  IF applyModifications(tree, r.data.mods.v).failed # <<>>
                  THEN Append(Append(history, AssistantMessage(r.data.reply)),
                              ErrorMessage(<<"Some components could not be updated.">>))
                  ELSE Append(history, AssistantMessage(r.data.reply))
       ELSE /\ history' = Append(history, AssistantMessage(r.data.reply))
            /\ UNCHANGED mergeVars
    /\ isLoading' = setSubmitting(FALSE).isLoading
    /\ submitDisabled' = setSubmitting(FALSE).submitDisabled
    /\ inputDisabled' = setSubmitting(FALSE).inputDisabled
    /\ UNCHANGED <<pendingComponents, lastUsedComponents, submitCount, apiEndpoint,
                   uncaught, uiVars>>

\* The rest of handleSubmit, run when the promise of sendMessage settles.
SettleEffects(i, net) ==
    LET r == sendMessageSettle(inflight[i], net) IN
    /\ inflight' = RemoveAt(inflight, i)
    /\ IF r.threw
       THEN /\ history' = Append(history, ErrorMessage(r.error))
            /\ UNCHANGED mergeVars
       ELSE IF r.data = NullBody
       THEN \* response.reply throws inside the try block
            /\ history' = Append(history, ErrorMessage(ErrReplyOfNull))
            /\ UNCHANGED mergeVars
       ELSE /\ history' = Append(history, AssistantMessage(r.data.reply))
            /\ IF r.data.mods.defined
               THEN DoApply(r.data.mods.v)
               ELSE UNCHANGED mergeVars
    /\ isLoading' = setSubmitting(FALSE).isLoading
    /\ submitDisabled' = setSubmitting(FALSE).submitDisabled
    /\ inputDisabled' = setSubmitting(FALSE).inputDisabled
    /\ UNCHANGED <<pendingComponents, lastUsedComponents, submitCount, apiEndpoint,
                   uncaught, uiVars>>

\* The fetch of request i ends.
RequestSettles ==
    \E i \in 1..Len(inflight) :
        /\ inflight[i].fetched
        /\ \E net \in NetOutcomes : SettleEffects(i, net)

\* The rejection of a sendMessage that threw before fetching is handled.
RejectionHandled ==
    \E i \in 1..Len(inflight) :
        /\ ~inflight[i].fetched
        /\ SettleEffects(i, Unreachable(""))

\* The fetch of request i ends in one of the odd outcomes.
OddResponseArrives ==
    \E i \in 1..Len(inflight) :
        /\ inflight[i].fetched
        /\ \E net \in OddOutcomes : SettleEffects(i, net)

-----------------------------------------------------------------------------
(* The panel: state.isOpen, state.togglePanel and the panel's open class *)

convVars == <<history, pendingComponents, lastUsedComponents, isLoading,
              submitDisabled, inputDisabled, inflight, submitCount, apiEndpoint>>

\* The plugin function has run: editor.AiAgent exists, state.togglePanel is
\* still null and no module is loaded.
PanelRegistered ==
    /\ loaded = FALSE
    /\ isOpen = FALSE
    /\ panelOpen = FALSE

\* initModules has run on the editor's 'load' event: state.togglePanel is
\* set and the panel exists, closed.
PanelLoaded ==
    /\ loaded = TRUE
    /\ isOpen = FALSE
    /\ panelOpen = FALSE

\* chatbot openPanel(): panel.classList.add(`${pfx}-open`)
openPanel == panelOpen' = TRUE

\* chatbot closePanel(): panel.classList.remove(`${pfx}-open`)
closePanel == panelOpen' = FALSE

\* The function initModules stores in state.togglePanel.
togglePanel ==
    /\ isOpen' = ~isOpen
    /\ IF isOpen' THEN openPanel ELSE closePanel
    /\ loaded' = loaded

ErrToggleNotFunction == "state.togglePanel is not a function"

\* The expression state.togglePanel() at a call site: a TypeError while the
\* field still holds null.
CallTogglePanel ==
    IF loaded
    THEN togglePanel /\ UNCHANGED uncaught
    ELSE /\ uncaught' = uncaught \cup {ErrToggleNotFunction}
         /\ UNCHANGED panelVars

-----------------------------------------------------------------------------
(* The floating action button, in its two variants: the pointer-event      *)
(* module (src/fab.js) and the mouse/touch module with a drag threshold.   *)

FabVariants == {"pointer", "mouse"}

\* The module the plugin's index imports as './fab'.
FabBuilt == "pointer"

DRAG_THRESHOLD == 5

\* Distances from the press point a move event can report: below and above
\* the threshold.
Distances == {2, 7}

\* createFAB has run: no gesture, module variables at their initial values.
FabCreated ==
    /\ gesture = "idle"
    /\ travel = 0
    /\ isDragging = FALSE
    /\ hasDragged = FALSE
    /\ docListeners = FALSE
    /\ canvasDisabled = FALSE

\* fab.js handlePointerDown: stores the offset, attaches the document listeners.
handlePointerDown ==
    /\ docListeners' = TRUE
    /\ UNCHANGED <<isDragging, hasDragged, canvasDisabled, panelVars, uncaught>>

\* fab.js handlePointerMove: any move starts the drag and moves the FAB.
handlePointerMove ==
    /\ isDragging' = TRUE
    /\ UNCHANGED <<hasDragged, docListeners, canvasDisabled, panelVars, uncaught>>

\* fab.js handlePointerUp: detaches the listeners, ends a drag.
handlePointerUp ==
    /\ docListeners' = FALSE
    /\ isDragging' = FALSE
    /\ UNCHANGED <<hasDragged, canvasDisabled, panelVars, uncaught>>

\* fab.js handleClick
handleClick ==
    /\ IF ~isDragging THEN CallTogglePanel ELSE UNCHANGED <<panelVars, uncaught>>
    /\ UNCHANGED <<isDragging, hasDragged, docListeners, canvasDisabled>>

\* handleMouseDown / handleTouchStart: startDrag and the document listeners.
handleMouseDown ==
    /\ isDragging' = TRUE
    /\ hasDragged' = FALSE
    /\ docListeners' = TRUE
    /\ UNCHANGED <<canvasDisabled, panelVars, uncaught>>

\* handleMouseMove / handleTouchMove with updateDrag, the pointer being at
\* distance d from the press point.
handleMouseMove(d) ==
    IF ~isDragging \/ (~hasDragged /\ d < DRAG_THRESHOLD)
    THEN UNCHANGED <<isDragging, hasDragged, docListeners, canvasDisabled, panelVars,
                     uncaught>>
    ELSE IF ~hasDragged
    THEN /\ hasDragged' = TRUE
         /\ canvasDisabled' = TRUE                     \* disableCanvasEvents()
         /\ IF isOpen THEN CallTogglePanel ELSE UNCHANGED <<panelVars, uncaught>>
         /\ UNCHANGED <<isDragging, docListeners>>
    ELSE UNCHANGED <<isDragging, hasDragged, docListeners, canvasDisabled, panelVars,
                     uncaught>>

\* handleMouseUp / handleTouchEnd: the listeners are detached, then endDrag.
handleMouseUp ==
    /\ docListeners' = FALSE
    /\ IF ~isDragging
       THEN UNCHANGED <<isDragging, hasDragged, canvasDisabled, panelVars, uncaught>>
       ELSE /\ isDragging' = FALSE
            /\ canvasDisabled' = FALSE                 \* enableCanvasEvents()
            /\ IF hasDragged
               THEN UNCHANGED <<panelVars, uncaught>>   \* savePosition()
               ELSE CallTogglePanel
            /\ hasDragged' = FALSE

\* The primary button (or one finger) goes down on the FAB.
FabPress ==
    /\ loaded
    /\ gesture = "idle"
    /\ gesture' = "down"
    /\ travel' = 0
    /\ IF fabVariant = "pointer" THEN handlePointerDown ELSE handleMouseDown
    /\ UNCHANGED <<mergeVars, convVars, proxyCall, fabVariant>>

\* The pointer moves while it is down; the document listener gets the event.
FabMove ==
    /\ gesture = "down"
    /\ docListeners
    /\ \E d \in Distances :
          /\ travel' = IF travel >= d THEN travel ELSE d
          /\ IF fabVariant = "pointer" THEN handlePointerMove ELSE handleMouseMove(d)
    /\ UNCHANGED <<mergeVars, convVars, proxyCall, fabVariant, gesture>>

\* The pointer is released.  The pointer variant then still has the click
\* event to come; the mouse/touch variant listens to no click.
FabRelease ==
    /\ gesture = "down"
    /\ IF fabVariant = "pointer"
       THEN gesture' = "up" /\ handlePointerUp
       ELSE gesture' = "idle" /\ handleMouseUp
    /\ UNCHANGED <<mergeVars, convVars, proxyCall, fabVariant, travel>>

\* The browser dispatches the click that follows pointerup on the FAB.
FabClick ==
    /\ gesture = "up"
    /\ gesture' = "idle"
    /\ handleClick
    /\ UNCHANGED <<mergeVars, convVars, proxyCall, fabVariant, travel>>

\* After a move the pointer can be released off the FAB (the FAB is kept
\* inside its container): the click then goes to another element.
FabClickElsewhere ==
    /\ gesture = "up"
    /\ travel > 0
    /\ gesture' = "idle"
    /\ UNCHANGED <<mergeVars, convVars, proxyCall, fabVariant, travel, isDragging, hasDragged,
                   docListeners, canvasDisabled, panelVars, uncaught>>

-----------------------------------------------------------------------------
(* The demo proxy (scripts/demo-server.js): parseAIResponse.  The model's  *)
(* text output is a sequence of pieces: whitespace, newline, a ``` fence,  *)
(* a word, or a complete JSON text standing for the value it denotes.      *)

JUndefined == [t |-> "undefined"]
JNull == [t |-> "null"]
JNumber == [t |-> "number"]
JString(s) == [t |-> "string", s |-> s]
JArray == [t |-> "array"]
JMapping(keys) == [t |-> "object", keys |-> keys]

\* A decoded JSON object or array, with what its reply and modifications
\* properties hold (JUndefined when absent).
JObject(reply, mods) == [t |-> "object", reply |-> reply, modifications |-> mods]
JTopArray == [t |-> "array", reply |-> JUndefined, modifications |-> JUndefined]

\* The typeof operator.
TypeOf(v) ==
    CASE v.t = "undefined" -> "undefined"
      [] v.t = "number" -> "number"
      [] v.t = "string" -> "string"
      [] OTHER -> "object"          \* null, arrays and objects

PWs == [k |-> "ws"]
PNl == [k |-> "nl"]
PFence == [k |-> "fence"]
PWord(s) == [k |-> "word", s |-> s]
PJson(v) == [k |-> "json", v |-> v]

IsSpace(p) == p.k \in {"ws", "nl"}

RECURSIVE TrimLeft(_)
TrimLeft(c) == IF c # <<>> /\ IsSpace(Head(c)) THEN TrimLeft(Tail(c)) ELSE c

RECURSIVE TrimRight(_)
TrimRight(c) ==
    IF c # <<>> /\ IsSpace(c[Len(c)]) THEN TrimRight(SubSeq(c, 1, Len(c) - 1)) ELSE c

\* String.prototype.trim
TrimContent(c) == TrimRight(TrimLeft(c))

\* jsonStr.replace(/^```(?:json)?\n?/, '')
StripOpeningFence(c) ==
    LET a == IF c # <<>> /\ Head(c) = PFence THEN Tail(c) ELSE c
        b == IF a # c /\ a # <<>> /\ Head(a) = PWord("json") THEN Tail(a) ELSE a
    IN IF a # c /\ b # <<>> /\ Head(b) = PNl THEN Tail(b) ELSE b

\* .replace(/\n?```$/, '')
StripClosingFence(c) ==
    IF c # <<>> /\ c[Len(c)] = PFence
    THEN LET a == SubSeq(c, 1, Len(c) - 1)
         IN IF a # <<>> /\ a[Len(a)] = PNl THEN SubSeq(a, 1, Len(a) - 1) ELSE a
    ELSE c

JsonSyntaxError == [t |-> "SyntaxError"]

\* JSON.parse: one JSON text, with optional whitespace around it.
JSONParse(c) ==
    LET core == TrimContent(c)
    IN IF Len(core) = 1 /\ core[1].k = "json" THEN core[1].v ELSE JsonSyntaxError

ReplyDefault == JString("Changes applied.")
ReplyFallback == JString("I encountered an issue processing your request. Please try again.")
Fallback == JObject(ReplyFallback, JMapping({}))

\* parseAIResponse on the content of the first choice ('' when there is none).
parseAIResponse(content) ==
    LET trimmed == TrimContent(content)
        jsonStr == IF trimmed # <<>> /\ Head(trimmed) = PFence
                   THEN StripClosingFence(StripOpeningFence(trimmed))
                   ELSE trimmed
        parsed == JSONParse(jsonStr)
    IN IF parsed = JsonSyntaxError
       THEN Fallback                   \* catch: SyntaxError
       ELSE IF parsed = JNull
       THEN Fallback                   \* catch: TypeError reading 'reply' of null
       ELSE IF parsed.t \in {"number", "string"}
       THEN parsed                     \* property writes on a primitive are dropped
       ELSE [parsed EXCEPT
                !.reply = IF TypeOf(@) # "string" THEN ReplyDefault ELSE @,
                !.modifications =
                    IF TypeOf(@) # "object" \/ @ = JNull THEN JMapping({}) ELSE @]

\* Values a model can put in the reply and modifications properties.
ReplyValues == {JUndefined, JString("Done."), JNumber}
ModificationsValues == {JUndefined, JNull, JMapping({}), JMapping({"c1"}), JArray, JString("none")}

JsonObjects == {JObject(r, m) : r \in ReplyValues, m \in ModificationsValues}

\* Values of the JSON texts a model can emit.
JsonValues == JsonObjects \cup {JNumber, JString("ok"), JNull, JTopArray}

\* The bodies of a model output: a JSON text, or prose.
Bodies == {<<PJson(v)>> : v \in JsonValues} \cup {<<PWord("Sure"), PWs, PWord("done")>>}

FenceStyles == {"none", "json", "bare", "js", "inline", "unclosed"}

Fenced(style, body) ==
    CASE style = "none" -> body
      [] style = "json" -> <<PFence, PWord("json"), PNl>> \o body \o <<PNl, PFence>>
      [] style = "bare" -> <<PFence, PNl>> \o body \o <<PNl, PFence>>
      [] style = "js" -> <<PFence, PWord("js"), PNl>> \o body \o <<PNl, PFence>>
      [] style = "inline" -> <<PFence, PWord("json")>> \o body \o <<PFence>>
      [] style = "unclosed" -> <<PFence, PWord("json"), PNl>> \o body

\* Model outputs: every body in every fence style, bare or padded with
\* whitespace, and the empty content of a response without choices.
ModelOutputs ==
    {<<>>} \cup
    {pad \o Fenced(style, body) \o pad :
        pad \in {<<>>, <<PNl>>}, style \in FenceStyles, body \in Bodies}

NoProxyCall == [content |-> <<>>, result |-> JUndefined]

\* The proxy's request handler from the model's answer on: result =
\* parseAIResponse(openRouterResponse), sent back with status 200.
ProxyParses ==
    /\ \E content \in ModelOutputs :
          proxyCall' = [content |-> content, result |-> parseAIResponse(content)]
    /\ UNCHANGED <<mergeVars, convVars, uncaught, panelVars, fabVars>>

-----------------------------------------------------------------------------
(* Badges, toolbar, history *)

PendIds == {"c1", "btn"}

\* addComponentBadge without its includes test.
addComponentBadgeUnchecked(componentId) ==
    /\ pendingComponents' = Append(pendingComponents, componentId)
    /\ UNCHANGED <<mergeVars, history, lastUsedComponents, isLoading, submitDisabled,
                   inputDisabled, inflight, submitCount, apiEndpoint, uncaught>>

addComponentBadge(componentId) ==
    /\ pendingComponents' =
          IF componentId \notin Range(pendingComponents)
          THEN Append(pendingComponents, componentId)
          ELSE pendingComponents
    /\ UNCHANGED <<mergeVars, history, lastUsedComponents, isLoading, submitDisabled,
                   inputDisabled, inflight, submitCount, apiEndpoint, uncaught>>

removeComponentBadge(componentId) ==
    /\ pendingComponents' =
          IF IndexOf(pendingComponents, componentId) > 0
          THEN RemoveAt(pendingComponents, IndexOf(pendingComponents, componentId))
          ELSE pendingComponents
    /\ UNCHANGED <<mergeVars, history, lastUsedComponents, isLoading, submitDisabled,
                   inputDisabled, inflight, submitCount, apiEndpoint, uncaught>>

\* editor.AiAgent.addComponent(componentId)
AddComponent ==
    IF loaded
    THEN /\ submitCount < MaxSubmits \/ Len(inflight) > 0   \* the session is not over
         /\ \E id \in PendIds : addComponentBadge(id) /\ UNCHANGED uiVars
    ELSE UNCHANGED vars   \* chatbotModule?.addComponentBadge on a null module

\* editor.AiAgent.removeComponent(componentId)
RemoveComponent ==
    IF loaded
    THEN /\ submitCount < MaxSubmits \/ Len(inflight) > 0   \* the session is not over
         /\ \E id \in PendIds : removeComponentBadge(id) /\ UNCHANGED uiVars
    ELSE UNCHANGED vars   \* chatbotModule?.removeComponentBadge on a null module

\* The cids of the elements at and below a component (text nodes cannot be
\* selected in the canvas).
RECURSIVE Cids(_)
RECURSIVE KidsCids(_)
Cids(c) == (IF c.tagName = "" THEN {} ELSE {c.cid}) \cup KidsCids(c.kids)
KidsCids(kids) ==
    IF kids = <<>> THEN {} ELSE Cids(Head(kids)) \cup KidsCids(Tail(kids))

\* The components a user can select for the toolbar: the elements below
\* the wrapper.
Selectable == KidsCids(tree.kids)

\* The toolbar command "send to chat" on the selected component:
\* selected.cid || selected.getId() goes to addComponentBadge, and a closed
\* panel is opened. The command exists once the modules are loaded.
ToolbarSendToChat ==
    /\ loaded
    /\ \E cid \in Selectable : addComponentBadge(cid)
    /\ IF ~isOpen THEN togglePanel ELSE UNCHANGED panelVars
    /\ UNCHANGED <<fabVars, proxyCall>>

\* editor.AiAgent.addComponent('btn')
AddButton == addComponentBadge("btn") /\ UNCHANGED uiVars

\* A clearHistory that also forgets the last used components.
ClearHistoryForgetting ==
    /\ history' = <<>>
    /\ lastUsedComponents' = None
    /\ UNCHANGED <<mergeVars, pendingComponents, isLoading, submitDisabled,
                   inputDisabled, inflight, submitCount, apiEndpoint, uncaught, uiVars>>

\* editor.AiAgent.clearHistory()
ClearHistory ==
    /\ submitCount < MaxSubmits \/ Len(inflight) > 0   \* the session is not over
    /\ history' = <<>>
    /\ UNCHANGED <<mergeVars, pendingComponents, lastUsedComponents, isLoading,
                   submitDisabled, inputDisabled, inflight, submitCount, apiEndpoint,
                   uncaught, uiVars>>

\* The editor's 'load' event: initModules sets state.togglePanel and loads
\* the FAB, the chatbot panel and the toolbar command.
EditorLoad ==
    /\ ~loaded
    /\ loaded' = TRUE
    /\ UNCHANGED <<mergeVars, convVars, proxyCall, uncaught, isOpen, panelOpen, fabVars>>

\* editor.AiAgent.open()
AiAgentOpen ==
    /\ IF ~isOpen THEN CallTogglePanel ELSE UNCHANGED <<panelVars, uncaught>>
    /\ UNCHANGED <<mergeVars, convVars, proxyCall, fabVars>>

\* editor.AiAgent.close()
AiAgentClose ==
    /\ IF isOpen THEN CallTogglePanel ELSE UNCHANGED <<panelVars, uncaught>>
    /\ UNCHANGED <<mergeVars, convVars, proxyCall, fabVars>>

\* editor.AiAgent.toggle()
AiAgentToggle ==
    /\ CallTogglePanel
    /\ UNCHANGED <<mergeVars, convVars, proxyCall, fabVars>>

\* A click on the panel's close button, which exists once the chatbot
\* module is loaded.
CloseButtonClick ==
    /\ loaded
    /\ CallTogglePanel
    /\ UNCHANGED <<mergeVars, convVars, proxyCall, fabVars>>

-----------------------------------------------------------------------------
(* State machine *)

Init ==
    /\ tree = InitTree
    /\ lastApply = NoApply
    /\ applyCalls = 0
    /\ refreshCount = 0
    /\ history = <<>>
    /\ pendingComponents = <<>>
    /\ lastUsedComponents = None
    /\ isLoading = FALSE
    /\ submitDisabled = FALSE
    /\ inputDisabled = FALSE
    /\ inflight = <<>>
    /\ submitCount = 0
    /\ apiEndpoint \in {"", Endpoint}
    /\ uncaught = {}
    /\ PanelLoaded
    /\ FabCreated
    /\ fabVariant = FabBuilt
    /\ proxyCall = NoProxyCall

\* editor.AiAgent.api().applyModifications(mods), called by the embedding page.
ApiApplyModifications ==
    /\ applyCalls < MaxCalls
    /\ \E mods \in Batches : DoApply(mods)
    /\ UNCHANGED chatVars

MergeNext == ApiApplyModifications

MergeInit == Init /\ apiEndpoint = Endpoint

MergeSpec == MergeInit /\ [][MergeNext]_vars

Next ==
    \/ SubmitClick
    \/ EnterKey
    \/ RequestSettles
    \/ RejectionHandled
    \/ AddComponent
    \/ RemoveComponent
    \/ ClearHistory

Spec == Init /\ [][Next]_vars

\* Trees a request can be built from: the initial one, the one in which the
\* div has lost its children, and the one whose div was replaced.
RequestTrees ==
    {InitTree,
     applyModifications(InitTree, <<Entry("c1", Num)>>).tree,
     applyModifications(InitTree, <<Entry("c1", HtmlFullDiv)>>).tree}

\* Lists of referenced ids: up to MaxBatch ids, none twice.
RefLists ==
    {ids \in UNION {[1..n -> Ids] : n \in 0..MaxBatch} :
        \A i, j \in 1..Len(ids) : ids[i] = ids[j] => i = j}

\* editor.AiAgent.api().sendMessage(message, componentIds, []) called by the
\* embedding page, up to its first await.
apiSendMessage(message, componentIds) ==
    /\ Len(inflight) < MaxCalls
    /\ inflight' = Append(inflight,
                      sendMessageStart(apiEndpoint, tree, message, componentIds, <<>>))
    /\ UNCHANGED <<mergeVars, history, pendingComponents, lastUsedComponents, isLoading,
                   submitDisabled, inputDisabled, submitCount, apiEndpoint, uncaught, uiVars>>

ApiSendMessage == \E ids \in RefLists : apiSendMessage(<<"make it red">>, ids)

\* The promise of such a call settles; its value or error goes to the caller.
ApiRequestEnds ==
    /\ \E i \in 1..Len(inflight) : inflight' = RemoveAt(inflight, i)
    /\ UNCHANGED <<mergeVars, history, pendingComponents, lastUsedComponents, isLoading,
                   submitDisabled, inputDisabled, submitCount, apiEndpoint, uncaught, uiVars>>

RequestInit ==
    /\ tree \in RequestTrees
    /\ lastApply = NoApply
    /\ applyCalls = 0
    /\ refreshCount = 0
    /\ history = <<>>
    /\ pendingComponents = <<>>
    /\ lastUsedComponents = None
    /\ isLoading = FALSE
    /\ submitDisabled = FALSE
    /\ inputDisabled = FALSE
    /\ inflight = <<>>
    /\ submitCount = 0
    /\ apiEndpoint = Endpoint
    /\ uncaught = {}
    /\ PanelLoaded
    /\ FabCreated
    /\ fabVariant = FabBuilt
    /\ proxyCall = NoProxyCall

RequestNext == ApiSendMessage \/ ApiRequestEnds

\* Request building on its own.
RequestSpec == RequestInit /\ [][RequestNext]_vars

\* The conversation flow over every outcome of a request.
WideNext ==
    \/ SubmitClick
    \/ RequestSettles
    \/ OddResponseArrives
    \/ RejectionHandled
    \/ AddButton

WideSpec == Init /\ [][WideNext]_vars

\* The pending selection under every way to change it, with no endpoint
\* configured.
PendingInit == Init /\ apiEndpoint = ""

PendingNext ==
    \/ AddComponent
    \/ RemoveComponent
    \/ ToolbarSendToChat
    \/ SubmitClick
    \/ RejectionHandled

PendingSpec == PendingInit /\ [][PendingNext]_vars

PanelInit ==
    /\ tree = InitTree
    /\ lastApply = NoApply
    /\ applyCalls = 0
    /\ refreshCount = 0
    /\ history = <<>>
    /\ pendingComponents = <<>>
    /\ lastUsedComponents = None
    /\ isLoading = FALSE
    /\ submitDisabled = FALSE
    /\ inputDisabled = FALSE
    /\ inflight = <<>>
    /\ submitCount = 0
    /\ apiEndpoint = Endpoint
    /\ uncaught = {}
    /\ PanelRegistered
    /\ FabCreated
    /\ fabVariant \in FabVariants
    /\ proxyCall = NoProxyCall

PanelNext ==
    \/ EditorLoad
    \/ AiAgentOpen
    \/ AiAgentClose
    \/ AiAgentToggle
    \/ CloseButtonClick
    \/ AddComponent
    \/ RemoveComponent
    \/ ToolbarSendToChat
    \/ FabPress
    \/ FabMove
    \/ FabRelease
    \/ FabClick
    \/ FabClickElsewhere

\* The panel's controls from plugin registration on: the public API, the
\* close button, the toolbar command and the FAB.
PanelSpec == PanelInit /\ [][PanelNext]_vars

ProxyInit == Init /\ apiEndpoint = Endpoint

\* The demo proxy's post-processing of model outputs.
ProxySpec == ProxyInit /\ [][ProxyParses]_vars

-----------------------------------------------------------------------------
(* Vocabulary of the properties of applyModifications *)

\* This step is an applyModifications call (lastApply' describes it).
IsApplyStep == applyCalls' = applyCalls + 1

IsPrefix(p, q) == Len(p) <= Len(q) /\ SubSeq(q, 1, Len(p)) = p
Related(p, q) == IsPrefix(p, q) \/ IsPrefix(q, p)

SuccessIds(call) == {call.success[i].id : i \in 1..Len(call.success)}
FailedIds(call) == {call.failed[i].id : i \in 1..Len(call.failed)}
ThrownIds(call) ==
    {call.failed[i].id : i \in {j \in 1..Len(call.failed) :
                                   call.failed[j].error # "Component not found"}}

\* The id attributes that occur in a replacement value.
IdsIn(value) ==
    {value.toks[i].attrs["id"] :
        i \in {j \in 1..Len(value.toks) : "id" \in DOMAIN value.toks[j].attrs}}

\* Entry i of mods is looked up in the tree as it was before the call: no
\* earlier entry of the batch patches the located component or an ancestor
\* of it, or creates a component carrying the id.
SeesCallTimeTree(t, mods, i) ==
    LET here == findComponentById(t, mods[i].id) IN
    \A j \in 1..(i - 1) :
        LET there == findComponentById(t, mods[j].id) IN
        /\ there.ok /\ here.ok => ~IsPrefix(there.path, here.path)
        /\ there.ok /\ ~here.ok => mods[i].id \notin IdsIn(mods[j].value)

\* What entry i did to the component at path p is still there after the
\* call: no later entry of the batch patches a component on p or below it.
KeptUntilReturn(t, t2, mods, i, p) ==
    \A j \in (i + 1)..Len(mods) :
        LET before == findComponentById(t, mods[j].id)
            after == findComponentById(t2, mods[j].id)
        IN /\ before.ok => ~Related(before.path, p)
           /\ after.ok => ~Related(after.path, p)

\* The children the two replacement modes give, in the words of the design:
\* nothing for a blank string, the fragment element's inner markup for a
\* full element replacement, the whole string otherwise.
IsBlank(value) == \A i \in 1..Len(value.toks) : value.toks[i].k = "ws"

TopElements(value) == DomChildren(value.toks)

SingleMatchingElement(component, value) ==
    /\ Len(TopElements(value)) = 1
    /\ component.tagName # Undefined
    /\ ToLower(TopElements(value)[1].tagName) = ToLower(component.tagName)

ExpectedKids(component, value) ==
    IF IsBlank(value) THEN <<>>
    ELSE IF SingleMatchingElement(component, value)
    THEN ComponentsFromHtml(InnerHTML(TopElements(value)[1]))
    ELSE ComponentsFromHtml(value.toks)

-----------------------------------------------------------------------------
(* Properties of applyModifications, checked under MergeSpec *)

C2_FailedPatchLeavesNodeIntact ==
    [][IsApplyStep =>
        LET mods == lastApply'.mods IN
        \A i \in 1..Len(mods) :
            LET here == findComponentById(tree, mods[i].id) IN
            /\ mods[i].id \in FailedIds(lastApply')
            /\ here.ok
            /\ \A j \in 1..Len(mods) \ {i} :
                   LET there == findComponentById(tree, mods[j].id) IN
                   there.ok => ~Related(there.path, here.path)
            => /\ NodeAt(tree', here.path).kids = NodeAt(tree, here.path).kids
               /\ NodeAt(tree', here.path).attrs = NodeAt(tree, here.path).attrs
    ]_vars

\* C3: identity preservation.  Every component a call reports as applied has,
\* after the call, the cid and the identifier (getId) it had before, and its
\* id still locates it.
C3_IdentityPreserved ==
    [][IsApplyStep =>
        LET mods == lastApply'.mods IN
        \A i \in 1..Len(mods) :
            LET here == findComponentById(tree, mods[i].id) IN
            /\ mods[i].id \in SuccessIds(lastApply')
            /\ here.ok
            /\ SeesCallTimeTree(tree, mods, i)
            /\ KeptUntilReturn(tree, tree', mods, i, here.path)
            => /\ NodeAt(tree', here.path).cid = NodeAt(tree, here.path).cid
               /\ getId(NodeAt(tree', here.path)) = getId(NodeAt(tree, here.path))
               /\ findComponentById(tree', mods[i].id) = here
    ]_vars

\* C3 witness: the div c1, which has no id attribute, took a full
\* replacement whose fragment carries id="zz"; then the button it contains,
\* which has id="btn", took one too.
C3_Witness ==
    /\ applyCalls = 2
    /\ lastApply.mods = <<Entry("btn", HtmlFullButton)>>
    /\ "btn" \in SuccessIds(lastApply)
    /\ "id" \in DOMAIN tree.kids[1].attrs
    /\ getId(tree.kids[1]) = "c1"
    /\ tree.kids[1].attrs["class"] = "new"
    /\ Len(tree.kids[1].kids) = 2
    /\ tree.kids[1].kids[2].attrs["id"] = "btn"
    /\ tree.kids[1].kids[2].attrs["class"] = "new"

\* C4: full element replacement.  When the replacement parses to exactly one
\* top-level element whose tag equals the component's tag, case-insensitively,
\* the component keeps its tag, every attribute of the fragment other than id
\* has the fragment's value, every other old attribute keeps its value, no
\* other attribute appears, and the children are the fragment element's
\* inner markup.
C4_FullElementReplacement ==
    [][IsApplyStep =>
        LET mods == lastApply'.mods IN
        \A i \in 1..Len(mods) :
            LET here == findComponentById(tree, mods[i].id)
                old == NodeAt(tree, here.path)
                new == NodeAt(tree', here.path)
                frag == TopElements(mods[i].value)[1].attributes
            IN
            /\ here.ok
            /\ mods[i].value.type = "string"
            /\ SingleMatchingElement(old, mods[i].value)
            /\ SeesCallTimeTree(tree, mods, i)
            /\ KeptUntilReturn(tree, tree', mods, i, here.path)
            => /\ mods[i].id \in SuccessIds(lastApply')
               /\ new.tagName = old.tagName
               /\ DOMAIN new.attrs \ {"id"} = (DOMAIN old.attrs \cup DOMAIN frag) \ {"id"}
               /\ \A k \in DOMAIN new.attrs \ {"id"} :
                     new.attrs[k] = IF k \in DOMAIN frag THEN frag[k] ELSE old.attrs[k]
               /\ new.kids = ComponentsFromHtml(InnerHTML(TopElements(mods[i].value)[1]))
    ]_vars

\* C4 witness: the div c1, whose source tag is lower case, took a fragment
\* written <DIV ...>: class was overwritten, title kept, style added.
C4_Witness ==
    /\ \E i \in 1..Len(lastApply.mods) :
          /\ lastApply.mods[i] = Entry("c1", HtmlFullDiv)
          /\ \A j \in 1..Len(lastApply.mods) : lastApply.mods[j].id = "c1" \/ j < i
    /\ "c1" \in SuccessIds(lastApply)
    /\ tree.kids[1].attrs["class"] = "new"
    /\ tree.kids[1].attrs["title"] = "keep"
    /\ tree.kids[1].attrs["style"] = "color:red"
    /\ Len(tree.kids[1].kids) = 2

\* C5: inner content replacement.  When the replacement string has no
\* top-level element, several, or a single one whose tag differs from the
\* component's, the component keeps its tag and attribute map, its children
\* are the components of the whole string, and the id is reported applied.
C5_InnerContentReplacement ==
    [][IsApplyStep =>
        LET mods == lastApply'.mods IN
        \A i \in 1..Len(mods) :
            LET here == findComponentById(tree, mods[i].id)
                old == NodeAt(tree, here.path)
                new == NodeAt(tree', here.path)
            IN
            /\ here.ok
            /\ mods[i].value.type = "string"
            /\ ~SingleMatchingElement(old, mods[i].value)
            /\ SeesCallTimeTree(tree, mods, i)
            /\ KeptUntilReturn(tree, tree', mods, i, here.path)
            => /\ mods[i].id \in SuccessIds(lastApply')
               /\ new.tagName = old.tagName
               /\ new.attrs = old.attrs
               /\ new.kids = ComponentsFromHtml(mods[i].value.toks)
    ]_vars

\* C5 witness: the div c1 took a string holding a single <button> element
\* (tag mismatch): it kept its attributes and the button became its child.
C5_Witness ==
    /\ lastApply.mods = <<Entry("c1", HtmlFullButton)>>
    /\ "c1" \in SuccessIds(lastApply)
    /\ tree.kids[1].attrs = AttrsOld
    /\ Len(tree.kids[1].kids) = 1
    /\ tree.kids[1].kids[1].tagName = "button"
    /\ tree.kids[1].kids[1].attrs = AttrsNew

\* C6: applyModifications with an empty mapping leaves the tree unchanged,
\* returns empty success and failed lists and refreshes the canvas once.
C6_EmptyMappingIsNoOp ==
    [][IsApplyStep /\ lastApply'.mods = <<>> =>
        /\ tree' = tree
        /\ lastApply'.success = <<>>
        /\ lastApply'.failed = <<>>
        /\ lastApply'.changed = <<>>
        /\ refreshCount' = refreshCount + 1
    ]_vars

\* C6 witness: an empty mapping was applied to a tree that an earlier call
\* had already patched.
C6_Witness ==
    /\ applyCalls = 2
    /\ lastApply.mods = <<>>
    /\ tree # InitTree
    /\ refreshCount = 2

-----------------------------------------------------------------------------
(* Vocabulary of the properties of the conversation flow *)

\* This step is the synchronous part of a submit that goes on to a request.
IsSubmitStep == submitCount' = submitCount + 1

\* This step is the handling of the end of a request.
IsSettleStep == Len(inflight') = Len(inflight) - 1

LastOf(seq) == seq[Len(seq)]

\* The outcomes of a fetch that make the request fail: the endpoint is not
\* reached, the status is not 2xx, or the body does not decode.
FailingOutcomes ==
    {net \in NetOutcomes :
        net.kind = "unreachable" \/ net.status < 200 \/ net.status > 299 \/ ~net.body.json}

\* This step handles a failed request: one that was never sent because the
\* endpoint is not configured, or one whose fetch ended in a failing outcome.
IsFailedSettle ==
    /\ IsSettleStep
    /\ \E i \in 1..Len(inflight) :
          \/ ~inflight[i].fetched /\ SettleEffects(i, Unreachable(""))
          \/ inflight[i].fetched /\ \E net \in FailingOutcomes : SettleEffects(i, net)

\* This step handles a request whose sendMessage returned a decoded 2xx body.
IsSuccessfulSettle ==
    /\ IsSettleStep
    /\ \E i \in 1..Len(inflight) :
          /\ inflight[i].fetched
          /\ \E net \in NetOutcomes \ FailingOutcomes : SettleEffects(i, net)

\* C7: the handling of a failed request (endpoint not configured, endpoint
\* unreachable, non-2xx status, undecodable body) leaves the component tree
\* alone and calls applyModifications not at all; applyModifications runs
\* only in the handling of a request that succeeded, once in that step, so
\* never more often than submits have been handled.
C7_FailedRequestNeverMutates ==
    [][/\ IsFailedSettle =>
            /\ tree' = tree
            /\ applyCalls' = applyCalls
            /\ refreshCount' = refreshCount
            /\ LastOf(history').isError
       /\ applyCalls' # applyCalls =>
            /\ IsSuccessfulSettle
            /\ applyCalls' = applyCalls + 1
       /\ tree' # tree => applyCalls' # applyCalls
       /\ applyCalls' <= submitCount' - Len(inflight')
    ]_vars

\* C7 witness: a first request succeeded and its modifications changed the
\* tree; a second one was answered with status 500 and a body that carries
\* modifications, and was handled without another applyModifications call.
C7_Witness ==
    /\ Len(history) = 4
    /\ inflight = <<>>
    /\ ~history[2].isError
    /\ applyCalls = 1
    /\ tree # InitTree
    /\ history[4].isError
    /\ history[4].content[2] = "API error ("

\* C8: at most one request is outstanding at any time; a request is built
\* only when none is outstanding and the panel is not loading; and the tree
\* is changed only by the step that handles the end of the one outstanding
\* request, which builds no request.
C8_SingleFlight ==
    [][/\ Len(inflight') <= 1
       /\ Len(inflight') > Len(inflight) => inflight = <<>> /\ ~isLoading
       /\ inflight' # <<>> => isLoading' /\ submitDisabled' /\ inputDisabled'
       /\ tree' # tree => Len(inflight) = 1 /\ inflight' = <<>>
    ]_vars

\* C8 witness: a second request is outstanding after the first was handled,
\* and a component was added while it is in flight.
C8_Witness ==
    /\ submitCount = 2
    /\ Len(history) = 3
    /\ Len(inflight) = 1
    /\ inflight[1].fetched
    /\ pendingComponents # <<>>

\* C9: a submit with pending components leaves lastUsedComponents equal to
\* the components that were pending and pendingComponents empty; the
\* handling of the end of the request, successful or not, does not touch
\* lastUsedComponents.
C9_SubmitRecordsComponents ==
    [][/\ IsSubmitStep /\ pendingComponents # <<>> =>
            /\ lastUsedComponents' = Some(pendingComponents)
            /\ pendingComponents' = <<>>
       /\ IsSettleStep => lastUsedComponents' = lastUsedComponents
    ]_vars

\* C9 witness: a submit with one component failed; a second submit with two
\* other pending components has just replaced the recorded ones.
C9_Witness ==
    /\ Len(history) = 3
    /\ history[1].components = Some(<<"c1">>)
    /\ history[2].isError
    /\ history[3].components = Some(<<"btn", "c1">>)
    /\ lastUsedComponents = Some(<<"btn", "c1">>)
    /\ pendingComponents = <<>>
    /\ Len(inflight) = 1

\* C10: a submit with no pending components and recorded last used ones
\* puts the recorded ones on the user message and, when a request is sent,
\* into the payload (its components and the last entry of its history), and
\* leaves lastUsedComponents as it was.
C10_ContextCarryOver ==
    [][(/\ IsSubmitStep
        /\ pendingComponents = <<>>
        /\ lastUsedComponents.defined
        /\ Len(lastUsedComponents.v) > 0) =>
            /\ LastOf(history').components = Some(lastUsedComponents.v)
            /\ LastOf(inflight').fetched =>
                  /\ LastOf(inflight').payload.components = lastUsedComponents.v
                  /\ LastOf(LastOf(inflight').payload.history).components
                        = lastUsedComponents.v
            /\ lastUsedComponents' = lastUsedComponents
    ]_vars

\* C10 witness: a follow-up without text and without pending components is
\* in flight with the two components of the first message, whose request
\* had replaced the div in between.
C10_Witness ==
    /\ Len(history) = 3
    /\ history[1].components = Some(<<"c1", "btn">>)
    /\ tree # InitTree
    /\ history[3].content = <<>>
    /\ history[3].components = Some(<<"c1", "btn">>)
    /\ Len(inflight) = 1
    /\ inflight[1].fetched
    /\ inflight[1].payload.components = <<"c1", "btn">>
    /\ lastUsedComponents = Some(<<"c1", "btn">>)

-----------------------------------------------------------------------------
(* Properties of the conversation flow over every outcome of a request *)

\* This step handles a decodable 2xx response whose modifications field is
\* not a mapping from id to HTML string.
IsNonMappingSettle ==
    \E i \in 1..Len(inflight) :
        /\ inflight[i].fetched
        /\ \E b \in NonMappingBodies : SettleEffects(i, Http(200, b))

\* C11: a response whose body does not decode, or whose modifications field
\* is a string, an array or a mapping with a non-string value, ends the
\* submit with an error message and leaves every node of the tree as it was.
C11_MalformedResponseIsServiceError ==
    [][(\/ IsNonMappingSettle
        \/ \E i \in 1..Len(inflight) :
              /\ inflight[i].fetched
              /\ SettleEffects(i, Http(200, TextBody("<html>Bad Gateway</html>")))) =>
            /\ LastOf(history').isError
            /\ tree' = tree
    ]_vars

\* C12: with no endpoint configured every sendMessage throws the
\* not-configured error before it looks up a component or calls fetch: no
\* request is ever outstanding at the network, no payload is built, every
\* submit is answered by the not-configured error message, and the tree is
\* never touched.
C12_NotConfiguredFailsFast ==
    apiEndpoint = "" =>
        /\ \A i \in 1..Len(inflight) :
              ~inflight[i].fetched /\ inflight[i].payload = NoPayload
        /\ \A i \in 1..Len(history) :
              history[i].role = "assistant" => history[i] = ErrorMessage(ErrNotConfigured)
        /\ tree = InitTree
        /\ applyCalls = 0

\* C12 witness: with no endpoint, a submit that references the div and the
\* button has been answered by the not-configured error, and a second
\* submit is being rejected.
C12_Witness ==
    /\ apiEndpoint = ""
    /\ Len(history) = 3
    /\ history[1].components = Some(<<"c1", "btn">>)
    /\ history[2] = ErrorMessage(ErrNotConfigured)
    /\ Len(inflight) = 1
    /\ inflight[1] = [fetched |-> FALSE, payload |-> NoPayload]

\* C13: every step leaves the history it found as a prefix of the history
\* it leaves behind, so the history of an earlier state is a prefix of the
\* history of every later one and no message in it changes.
C13_HistoryAppendOnly ==
    [][IsPrefix(history, history')]_vars

-----------------------------------------------------------------------------
(* Properties of the pending selection *)

NoDuplicates(seq) == \A i, j \in 1..Len(seq) : seq[i] = seq[j] => i = j

\* C14: pendingComponents never holds an id twice, and a step changes it in
\* one of three ways only: it appends one id that was absent, it takes out
\* one id that was present and keeps the others in order, or (a submit) it
\* empties it.  So adding an id that is present and removing one that is
\* absent change nothing.
C14_PendingHasNoDuplicates ==
    [][/\ NoDuplicates(pendingComponents')
       /\ pendingComponents' # pendingComponents =>
            \/ \E id \in (PendIds \cup Selectable) \ Range(pendingComponents) :
                  pendingComponents' = Append(pendingComponents, id)
            \/ \E i \in 1..Len(pendingComponents) :
                  pendingComponents' = RemoveAt(pendingComponents, i)
            \/ IsSubmitStep /\ pendingComponents' = <<>>
    ]_vars

\* C14 witness: after a submit emptied the selection, the button was sent
\* to the chat from the toolbar (by its cid) and added through the API (by
\* its id), and the div was added; each is pending once.
C14_Witness ==
    /\ submitCount = 1
    /\ pendingComponents = <<"c7", "btn", "c1">>

-----------------------------------------------------------------------------
(* Properties of the results of applyModifications *)

MappingIds(mods) == {mods[i].id : i \in 1..Len(mods)}

\* C15: the success and failed lists of a call partition the ids of the
\* mapping: every id of the mapping is in one of them, no id is in both or
\* twice in one, and no other id is in either.
C15_ResultAccounting ==
    [][IsApplyStep =>
        /\ SuccessIds(lastApply') \cup FailedIds(lastApply') = MappingIds(lastApply'.mods)
        /\ SuccessIds(lastApply') \cap FailedIds(lastApply') = {}
        /\ Len(lastApply'.success) + Len(lastApply'.failed) = Len(lastApply'.mods)
    ]_vars

\* C15 witness: a call with three ids returned two of them as failed, one
\* because it names no component, and one as applied.
C15_Witness ==
    /\ Len(lastApply.mods) = 3
    /\ Len(lastApply.success) = 1
    /\ Len(lastApply.failed) = 2
    /\ "ghost" \in FailedIds(lastApply)

\* C16: a call triggers 'change' on the component of each id it returns in
\* success, in that order, on nothing else, and refreshes the canvas once.
C16_NotificationCounts ==
    [][IsApplyStep =>
        /\ lastApply'.changed =
              [i \in 1..Len(lastApply'.success) |-> lastApply'.success[i].component]
        /\ refreshCount' = refreshCount + 1
    ]_vars

\* C16 witness: a call with three ids of which one was applied and one threw
\* after its component was located made one notification and one refresh.
C16_Witness ==
    /\ applyCalls = 1
    /\ refreshCount = 1
    /\ Len(lastApply.mods) = 3
    /\ Len(lastApply.changed) = 1
    /\ ThrownIds(lastApply) # {}

-----------------------------------------------------------------------------
(* Properties of the messages a request leaves in the conversation *)

\* The bodies with which sendMessage returns an object: 2xx and decoded to
\* something other than null.
ReturnedBodies == {b \in OkBodies \cup NonMappingBodies : b.json}

\* C17: the handling of a request for which sendMessage returned an object
\* appends exactly one message to the history, the assistant message with
\* the reply text and no error flag, whatever becomes of the modifications;
\* and a step in which applyModifications reports failed ids appends no
\* error message.
C17_ReplyKeptWhenMergeFails ==
    [][/\ \A i \in 1..Len(inflight) : \A b \in ReturnedBodies :
            (inflight[i].fetched /\ SettleEffects(i, Http(200, b))) =>
                history' = Append(history, AssistantMessage(b.reply))
       /\ (IsApplyStep /\ lastApply'.failed # <<>>) =>
            /\ Len(history') = Len(history) + 1
            /\ ~LastOf(history').isError
            /\ LastOf(history').content = <<"Done.">>
    ]_vars

\* C17 witness: the one request made so far was answered with modifications
\* none of which could be applied, and the conversation ends with the reply.
C17_Witness ==
    /\ Len(history) = 2
    /\ applyCalls = 1
    /\ Len(lastApply.mods) = 2
    /\ lastApply.success = <<>>
    /\ Len(lastApply.failed) = 2
    /\ history[2] = AssistantMessage(<<"Done.">>)

\* C18: the handling of a request whose endpoint could not be reached
\* appends one message, the error message with the network-error text; the
\* handling of a response with a status outside 200..299 appends one
\* message, the error message with the API-error text made of the status
\* and the body.
C18_ErrorTextTellsClasses ==
    [][\A i \in 1..Len(inflight) : \A net \in NetOutcomes \cup OddOutcomes :
        (inflight[i].fetched /\ SettleEffects(i, net)) =>
            /\ net.kind = "unreachable" =>
                  history' = Append(history, ErrorMessage(ErrNetwork))
            /\ (net.kind = "http" /\ (net.status < 200 \/ net.status > 299)) =>
                  history' = Append(history,
                      ErrorMessage(<<"API error (", StatusText(net.status), "): ",
                                     net.body.text>>))
    ]_vars

-----------------------------------------------------------------------------
(* Properties of the submitting flag *)

\* C19: state.isLoading is true exactly while a request is outstanding.  It
\* becomes true only in a submit step, which also disables the input; it
\* becomes false only in the step that handles the end of the request
\* (nothing else, so no timeout and no cancel, clears it); and every such
\* step, whether it appends the reply, an error message of sendMessage or
\* the error of an exception raised while the reply is appended, leaves it
\* false with the submit button and the input enabled.
C19_SubmittingFlagCycle ==
    [][/\ isLoading' <=> inflight' # <<>>
       /\ (~isLoading /\ isLoading') => IsSubmitStep /\ submitDisabled' /\ inputDisabled'
       /\ (isLoading /\ ~isLoading') => IsSettleStep
       /\ IsSubmitStep => ~isLoading /\ isLoading'
       /\ IsSettleStep =>
            /\ isLoading
            /\ ~isLoading' /\ ~submitDisabled' /\ ~inputDisabled'
    ]_vars

\* C19 witness: a first request ended in the exception response.reply raises
\* on a null body, the flag went back to false, and a second submit has set
\* it again.
C19_Witness ==
    /\ Len(history) = 3
    /\ history[2] = ErrorMessage(ErrReplyOfNull)
    /\ Len(inflight) = 1
    /\ isLoading /\ submitDisabled /\ inputDisabled

-----------------------------------------------------------------------------
(* Properties of the request payload *)

\* The components at or below c that answer to id, by cid or by getId().
RECURSIVE Answering(_, _)
Answering(c, id) ==
    (IF IdMatches(c, id) THEN {c} ELSE {})
        \cup UNION {Answering(c.kids[i], id) : i \in 1..Len(c.kids)}

\* C20: a request built for a list of referenced ids carries the whole list
\* as its components; its componentData has an entry for exactly the ids of
\* the list that some component of the current tree answers to, whose value
\* is the HTML of such a component; and the request is built and sent
\* whether or not every id is located.
C20_ComponentDataForLocatedIds ==
    [][\A ids \in RefLists :
        apiSendMessage(<<"make it red">>, ids) =>
            LET req == LastOf(inflight') IN
            /\ req.fetched
            /\ req.payload.components = ids
            /\ DOMAIN req.payload.componentData =
                  {id \in Range(ids) : Answering(tree, id) # {}}
            /\ \A id \in DOMAIN req.payload.componentData :
                  \E c \in Answering(tree, id) : req.payload.componentData[id] = toHTML(c)
    ]_vars

\* C20 witness: a request that references the button, an id that names no
\* component and the div was built from the tree whose div has no children:
\* its componentData has the div only.
C20_Witness ==
    /\ tree # InitTree
    /\ Len(inflight) = 1
    /\ inflight[1].payload.components = <<"btn", "ghost", "c1">>
    /\ DOMAIN inflight[1].payload.componentData = {"c1"}

-----------------------------------------------------------------------------
(* Properties of findComponentById *)

\* The paths of the components at and below c in pre-order: c itself, then
\* each child with everything below it, in the order of the children.
RECURSIVE PreOrder(_)
RECURSIVE PreOrderFrom(_, _)
PreOrder(c) == <<<<>>>> \o PreOrderFrom(c, 1)
PreOrderFrom(c, i) ==
    IF i > Len(c.kids) THEN <<>>
    ELSE [k \in 1..Len(PreOrder(c.kids[i])) |-> <<i>> \o PreOrder(c.kids[i])[k]]
            \o PreOrderFrom(c, i + 1)

\* The positions in PreOrder(t) of the components that answer to id.
MatchesInPreOrder(t, id) ==
    {k \in 1..Len(PreOrder(t)) : IdMatches(NodeAt(t, PreOrder(t)[k]), id)}

LookupIds == Ids \cup {"w", "c7"}

\* C21: on the tree as it is now, findComponentById returns for every id
\* the first component in pre-order (the wrapper first) that answers to it
\* by cid or by getId(), and nothing when no component answers to it.
C21_FirstMatchInPreOrder ==
    \A id \in LookupIds :
        LET hits == MatchesInPreOrder(tree, id)
            found == findComponentById(tree, id)
        IN IF hits = {} THEN ~found.ok
           ELSE /\ found.ok
                /\ found.path = PreOrder(tree)[CHOOSE k \in hits : \A m \in hits : k <= m]

\* C21 witness: two calls have left a tree in which two components answer
\* to "btn", one below the other, and in which the cid c7 that was found
\* before the calls answers no more.
C21_Witness ==
    /\ applyCalls = 2
    /\ Cardinality(MatchesInPreOrder(tree, "btn")) = 2
    /\ MatchesInPreOrder(InitTree, "c7") # {}
    /\ MatchesInPreOrder(tree, "c7") = {}

RECURSIVE ValidPath(_, _)
ValidPath(c, path) ==
    \/ path = <<>>
    \/ /\ Head(path) <= Len(c.kids)
       /\ ValidPath(c.kids[Head(path)], Tail(path))

\* C22: in every call, each id of the mapping has the outcome it would have
\* if the mapping held that id alone, and the component it named before the
\* call is left in the state that call would leave it in.
C22_PerIdIndependence ==
    [][IsApplyStep =>
        \A i \in 1..Len(lastApply'.mods) :
            LET e == lastApply'.mods[i]
                alone == applyModifications(tree, <<e>>)
                found == findComponentById(tree, e.id)
            IN /\ (e.id \in SuccessIds(lastApply')) <=> (alone.success # <<>>)
               /\ found.ok =>
                    /\ ValidPath(tree', found.path)
                    /\ NodeAt(tree', found.path) = NodeAt(alone.tree, found.path)
    ]_vars

-----------------------------------------------------------------------------
(* Properties of the panel controls *)

(* C23: Panel control through editor.AiAgent, from any state and at any    *)
(* time after the plugin is registered: after open() isOpen() is true,     *)
(* after close() it is false, toggle() negates it (open() and close() on a *)
(* panel already in the requested state are steps that change nothing),    *)
(* and isOpen() agrees with whether the panel carries its open class.      *)
C23_PanelControl ==
    [][/\ AiAgentOpen => isOpen'
       /\ AiAgentClose => ~isOpen'
       /\ AiAgentToggle => (isOpen' = ~isOpen)
       /\ isOpen' = panelOpen'
    ]_vars

\* The FAB was moved in the current gesture: the pointer variant follows
\* every move, the mouse/touch variant only moves past the threshold.
FabWasDragged ==
    IF fabVariant = "pointer" THEN travel > 0 ELSE travel >= DRAG_THRESHOLD

\* This step delivers the last event of a gesture.
GestureEnds == gesture # "idle" /\ gesture' = "idle"

(* C30: In both FAB variants a press and release without movement toggles  *)
(* the panel exactly once (the press and the pointerup do not toggle, the  *)
(* event that ends the gesture does); a gesture in which the FAB was       *)
(* dragged is not toggled by its release or by the click that ends it; and *)
(* after every gesture the dragging state is cleared, the document         *)
(* listeners are removed and canvas pointer events are enabled again.      *)
C30_FabPressRelease ==
    [][/\ FabPress => (isOpen' = isOpen)
       /\ (FabRelease /\ gesture' = "up") => (isOpen' = isOpen)
       /\ (GestureEnds /\ travel = 0) => (isOpen' = ~isOpen)
       /\ ((FabRelease \/ GestureEnds) /\ FabWasDragged) => (isOpen' = isOpen)
       /\ GestureEnds => (~isDragging' /\ ~docListeners' /\ ~canvasDisabled')
    ]_vars

-----------------------------------------------------------------------------
(* Properties of the demo proxy *)

\* A value of the shape {reply: string, modifications: mapping}.
HasReplyModificationsShape(v) ==
    /\ v.t = "object"
    /\ v.reply.t = "string"
    /\ v.modifications.t = "object"

(* C24: parseAIResponse returns, for every model output (plain JSON, JSON   *)
(* in a code fence, JSON of a non-object value such as a number, a string   *)
(* or null, or non-JSON text), a value of the shape {reply: string,         *)
(* modifications: mapping}; and a ``` or ```json fence around a JSON object *)
(* is stripped: the wrapped object is decoded, not replaced by the fallback.*)
C24_ProxyShape ==
    proxyCall # NoProxyCall =>
        /\ HasReplyModificationsShape(proxyCall.result)
        /\ \A v \in JsonObjects, style \in {"json", "bare"} :
              proxyCall.content = Fenced(style, <<PJson(v)>>) =>
                  /\ proxyCall.result # Fallback
                  /\ v.reply.t = "string" => proxyCall.result.reply = v.reply

-----------------------------------------------------------------------------
(* Properties of single submits *)

(* C25: the first submit of a session, with non-blank text and no component *)
(* ever selected (pendingComponents empty, lastUsedComponents never set),   *)
(* appends the user message to the history and sends exactly one request,   *)
(* whose components list and componentData are empty.                       *)
C25_FirstTextSubmit ==
    [][\A text \in Texts :
          (/\ TrimText(text) # <<>>
           /\ submitCount = 0
           /\ history = <<>>
           /\ inflight = <<>>
           /\ pendingComponents = <<>>
           /\ ~lastUsedComponents.defined
           /\ apiEndpoint = Endpoint
           /\ handleSubmit(text)) =>
              /\ history' = <<UserMessage(TrimText(text), <<>>)>>
              /\ Len(inflight') = 1
              /\ inflight'[1].fetched
              /\ inflight'[1].payload.components = <<>>
              /\ DOMAIN inflight'[1].payload.componentData = {}
    ]_vars

(* C26: a submit whose trimmed text is empty while pendingComponents is     *)
(* empty is ignored, whatever lastUsedComponents holds: the history is      *)
(* unchanged, no request is sent and the submitting flag stays false.       *)
C26_BlankSubmitIgnored ==
    [][\A text \in Texts :
          (/\ TrimText(text) = <<>>
           /\ pendingComponents = <<>>
           /\ handleSubmit(text)) =>
              /\ history' = history
              /\ inflight' = inflight
              /\ isLoading' = FALSE
    ]_vars

(* C27: in every request the payload's history holds only the messages     *)
(* that precede the message being submitted; the current user message is    *)
(* carried in the message field and is not also the last entry of history.  *)
C27_HistoryPrecedesMessage ==
    [][(IsSubmitStep /\ LastOf(inflight').fetched) =>
          /\ LastOf(inflight').payload.message = LastOf(history').content
          /\ LastOf(inflight').payload.history = ProjectHistory(history)
    ]_vars

-----------------------------------------------------------------------------
(* Properties of the pending and the last used components over time *)

\* This step adds an id to the pending components while a request is in flight.
IsAddDuringFlight ==
    /\ Len(inflight) > 0
    /\ Len(pendingComponents') = Len(pendingComponents) + 1

(* C28: an id added to the pending components while a request is in flight *)
(* does not change that request nor lastUsedComponents, the pending         *)
(* components are the same after the request has ended, and the next        *)
(* submit carries them on its message and in its request.                   *)
C28_AddedDuringFlight ==
    [][/\ IsAddDuringFlight =>
            /\ inflight' = inflight
            /\ lastUsedComponents' = lastUsedComponents
       /\ IsSettleStep => pendingComponents' = pendingComponents
       /\ (IsSubmitStep /\ pendingComponents # <<>>) =>
            /\ LastOf(history').components = Some(pendingComponents)
            /\ LastOf(inflight').fetched =>
                  LastOf(inflight').payload.components = pendingComponents
    ]_vars

\* C28 witness: the request about the div is in flight (the submit had
\* emptied the pending components) and the button, added since, is pending;
\* the request and lastUsedComponents still name the div alone.
C28_Witness ==
    /\ Len(inflight) = 1
    /\ inflight[1].fetched
    /\ inflight[1].payload.components = <<"c1">>
    /\ pendingComponents = <<"btn">>
    /\ lastUsedComponents = Some(<<"c1">>)
    /\ isLoading

\* lastUsedComponents holds a non-empty list.
HasLastUsed == lastUsedComponents.defined /\ Len(lastUsedComponents.v) > 0

(* C29: lastUsedComponents changes only in a submit and is never emptied:   *)
(* once it holds a non-empty list it holds one after every step (failed     *)
(* requests, removeComponent and clearHistory included), and every later    *)
(* submit carries a non-empty list of components.                           *)
C29_LastUsedOnlyGrows ==
    [][/\ lastUsedComponents' # lastUsedComponents => (IsSubmitStep /\ HasLastUsed')
       /\ HasLastUsed => HasLastUsed'
       /\ (HasLastUsed /\ IsSubmitStep) =>
            /\ LastOf(history').components.defined
            /\ Len(LastOf(history').components.v) > 0
            /\ LastOf(inflight').fetched =>
                  Len(LastOf(inflight').payload.components) > 0
    ]_vars

\* C29 witness: after two submits the history holds only the second user
\* message, without text, and the error of its failed request: the history
\* was cleared after the first submit, and the second submit still carried
\* the component of the first one, which is still recorded.
C29_Witness ==
    /\ submitCount = 2
    /\ Len(history) = 2
    /\ history[1].role = "user"
    /\ history[1].content = <<>>
    /\ history[1].components = Some(<<"c1">>)
    /\ history[2].isError
    /\ pendingComponents = <<>>
    /\ lastUsedComponents = Some(<<"c1">>)

====
